---- MODULE Spec2Model ----
(***************************************************************************)
(* Session lifecycle and connection resilience of the WhatsApp platform    *)
(* backend: WhatsAppService (src/src/services/whatsappService.js, first    *)
(* revision in the file, lines 1-767) and SessionHealthCheck               *)
(* (src/unnamed/part_017, first revision, lines 1-136).                    *)
(*                                                                         *)
(* Node.js runs one event loop: code between two awaits is atomic, and an  *)
(* async function that is called but not finished is a task that resumes   *)
(* at its await.  Every in-flight async invocation is an element of the    *)
(* bag `tasks`; its `pc` names the await it is suspended at.  A database   *)
(* write takes effect in the step that resumes the task awaiting it.       *)
(***************************************************************************)
EXTENDS Integers, Sequences, FiniteSets, Bags, TLC

\* ------------------------------------------------------------- bounds
MaxClients == 3      \* MessagingClient objects constructed in one run
MaxCalls == 3        \* invocations of one operation made by callers outside the model
MaxSweeps == 1       \* HealthMonitor sweeps in one run
MaxPending == 2      \* listeners that have been called and have not finished
MaxAge == 3          \* keepalive periods without a last_seen write that are counted
MaxRuns == 2         \* executions of a bot's scheduled task in one run
MaxLen == 9          \* characters of a typed phone number
MaxApplications == 2 \* successive applications of normalizePhoneNumber

Ids == {"A", "B"}            \* session ids
Users == {"U1", "U2"}        \* tenants
NoUser == "none"             \* userId not supplied (undefined)
ClientIds == 1..MaxClients
NoClient == 0

VARIABLES
  db,                 \* sessions table: id -> row
  fs,                 \* directories present under .wwebjs_auth
  clients,            \* this.clients: id -> client object (0: no entry)
  keepaliveIntervals, \* this.keepaliveIntervals: id -> client the interval probes
  cstate,             \* each MessagingClient's condition
  csid,               \* the session id each client was constructed for
  tasks,              \* bag of suspended async invocations
  timers,             \* bag of pending setTimeout callbacks
  statusLog,          \* per id, the status values written to the row, in order
  done,               \* what finished invocations returned to their callers
  calls,              \* invocations made so far, per kind
  logging,            \* whether this run records statusLog
  wire,               \* calls of client.sendMessage, in order
  messages,           \* messages table: the rows inserted, in order
  age,                \* per id, keepalive periods gone by since last_seen was written
  bot_executions,     \* bot_executions table: the rows inserted, in order
  rawNumber,          \* the argument of normalizePhoneNumber
  normalized          \* what its successive applications returned

vars == << db, fs, clients, keepaliveIntervals, cstate, csid, tasks, timers,
           statusLog, done, calls, logging, wire, messages, age, bot_executions,
           rawNumber, normalized >>

\* ------------------------------------------------------------- rows
NoRow ==
  [exists |-> FALSE, status |-> "none", qr_code |-> "null",
   phone_number |-> "null", user_id |-> NoUser]

Row(st, qr, ph, u) ==
  [exists |-> TRUE, status |-> st, qr_code |-> qr, phone_number |-> ph, user_id |-> u]

\* supabase .update(upd).eq('id', s): changes the named columns of the row, if any
DbUpdate(d, s, upd) ==
  IF d[s].exists
    THEN [d EXCEPT ![s] = [f \in DOMAIN d[s] |->
                             IF f \in DOMAIN upd THEN upd[f] ELSE d[s][f]]]
    ELSE d

LogWrite(log, d, s, upd) ==
  IF logging /\ d[s].exists /\ "status" \in DOMAIN upd
    THEN [log EXCEPT ![s] = Append(@, upd.status)]
    ELSE log

\* ------------------------------------------------------------- AuthStore paths
\* A path under this.authDataPath is <<prefix, id, leaf>>.
LocalAuthDir(s) == << "session-", s >>    \* where the client keeps its profile
DeleteAuthPath(s) == << "session-", s >>
RestoreAuthPath(s) == << "", s >>
BackupAuthPath(s) == << "session-", s >>
AllPaths == { LocalAuthDir(s) : s \in Ids } \cup { RestoreAuthPath(s) : s \in Ids }

\* ------------------------------------------------------------- tasks, timers
Task(op, s, pc, c, by, todo) ==
  [op |-> op, sid |-> s, pc |-> pc, c |-> c, by |-> by, todo |-> todo]

Spawn(b, t) == b (+) SetToBag({t})
Kill(b, t) == b (-) SetToBag({t})
Move(b, t, u) == Spawn(Kill(b, t), u)
At(t, pc) == [t EXCEPT !.pc = pc]
Running == BagToSet(tasks)

Timer(kind, s) == [kind |-> kind, sid |-> s]

Result(op, s, by, res) == [op |-> op, sid |-> s, by |-> by, res |-> res]

\* A finished task is removed; a health sweep that awaited it resumes its loop.
Finish(b, t) ==
  LET b1 == Kill(b, t)
      waiting == { h \in BagToSet(b1) : h.op = "health" /\ h.pc = "awaitReconnect" }
  IN IF t.by = "health" /\ waiting # {}
       THEN LET h == CHOOSE x \in waiting : TRUE IN Move(b1, h, At(h, "loop"))
       ELSE b1

\* ------------------------------------------------------------- clients
Live == { "init", "qr", "auth", "ready" }
Unused == { c \in ClientIds : cstate[c] = "none" }
NewClient == CHOOSE c \in Unused : \A d \in Unused : c <= d
LiveClientsOf(s) == { c \in ClientIds : csid[c] = s /\ cstate[c] \in Live }
ClientsOf(s) == { c \in ClientIds : csid[c] = s /\ cstate[c] # "none" }

\* keepalive timers (whatsappService.js 646-764): id -> the client the interval probes
stopKeepalive(ka, s) == [ka EXCEPT ![s] = NoClient]
startKeepalive(ka, s, c) == [stopKeepalive(ka, s) EXCEPT ![s] = c]

\* ------------------------------------------------------------- reconnectSession
\* whatsappService.js 488-555.  A call runs to `await this.getSession(sessionId)`.
reconnectSession(b, s, by) ==
  Spawn(b, Task("reconnect", s, "getSession", NoClient, by, {}))

\* 493-509: getSession returns; a missing row makes .single() fail and getSession
\* throw into the catch block; an entry in this.clients makes the call return.
RcGetSession(t) ==
  /\ t.op = "reconnect" /\ t.pc = "getSession"
  /\ IF ~db[t.sid].exists
       THEN /\ tasks' = Move(tasks, t, At(t, "catch"))
            /\ done' = done
       ELSE IF clients[t.sid] # NoClient
              THEN /\ tasks' = Finish(tasks, t)
                   /\ done' = done
              ELSE /\ tasks' = Move(tasks, t, At(t, "markConnecting"))
                   /\ done' = done
  /\ UNCHANGED << db, fs, clients, keepaliveIntervals, cstate, csid, timers,
                  statusLog, calls, logging, wire, messages, age, bot_executions,
                  rawNumber, normalized >>

\* 506-536: the 'connecting' update returns; new Client, this.clients.set,
\* setupEventHandlers, client.initialize() is called and awaited.
RcMarkConnecting(t) ==
  /\ t.op = "reconnect" /\ t.pc = "markConnecting"
  /\ Unused # {}
  /\ LET c == NewClient
         upd == [status |-> "connecting"]
     IN /\ db' = DbUpdate(db, t.sid, upd)
        /\ statusLog' = LogWrite(statusLog, db, t.sid, upd)
        /\ cstate' = [cstate EXCEPT ![c] = "init"]
        /\ csid' = [csid EXCEPT ![c] = t.sid]
        /\ clients' = [clients EXCEPT ![t.sid] = c]
        /\ tasks' = Move(tasks, t, [At(t, "initialize") EXCEPT !.c = c])
  /\ UNCHANGED << fs, keepaliveIntervals, timers, done, calls, logging, wire, messages, age, bot_executions,
                  rawNumber, normalized >>

\* 536-539: client.initialize() resolves.
RcInitialized(t) ==
  /\ t.op = "reconnect" /\ t.pc = "initialize"
  /\ cstate[t.c] # "failed"
  /\ tasks' = Finish(tasks, t)
  /\ done' = done
  /\ UNCHANGED << db, fs, clients, keepaliveIntervals, cstate, csid, timers,
                  statusLog, calls, logging, wire, messages, age, bot_executions,
                  rawNumber, normalized >>

\* 536, 540: client.initialize() throws (browser launch or page load failed).
RcInitFail(t) ==
  /\ t.op = "reconnect" /\ t.pc = "initialize"
  /\ cstate[t.c] = "init"
  /\ cstate' = [cstate EXCEPT ![t.c] = "failed"]
  /\ tasks' = Move(tasks, t, At(t, "catch"))
  /\ UNCHANGED << db, fs, clients, keepaliveIntervals, csid, timers, statusLog,
                  done, calls, logging, wire, messages, age, bot_executions,
                  rawNumber, normalized >>

RcCatchMutant(t) ==
  /\ t.op = "reconnect" /\ t.pc = "catch"
  /\ LET upd == [status |-> "disconnected"]
     IN /\ db' = DbUpdate(db, t.sid, upd)
        /\ statusLog' = LogWrite(statusLog, db, t.sid, upd)
  /\ tasks' = reconnectSession(Finish(tasks, t), t.sid, "retry")
  /\ UNCHANGED << fs, clients, keepaliveIntervals, cstate, csid, timers, done, calls,
                  logging, wire, messages, age, bot_executions, rawNumber, normalized >>

\* 540-554: the catch block: 'disconnected' update, then the 5-minute retry
\* timer.  The block does not touch this.clients.  The call resolves: nothing
\* in reconnectSession rethrows.
RcCatch(t) ==
  /\ t.op = "reconnect" /\ t.pc = "catch"
  /\ LET upd == [status |-> "disconnected"]
     IN /\ db' = DbUpdate(db, t.sid, upd)
        /\ statusLog' = LogWrite(statusLog, db, t.sid, upd)
  /\ timers' = Spawn(timers, Timer("retry", t.sid))
  /\ tasks' = Finish(tasks, t)
  /\ done' = done
  /\ UNCHANGED << fs, clients, keepaliveIntervals, cstate, csid, calls, logging, wire, messages, age, bot_executions,
                  rawNumber, normalized >>

ReconnectStep ==
  \E t \in Running :
    \/ RcGetSession(t)
    \/ RcMarkConnecting(t)
    \/ RcInitialized(t)
    \/ RcInitFail(t)
    \/ RcCatch(t)

\* Some caller (a route, a keepalive tick, a sweep) invokes reconnectSession.
CallReconnect ==
  \E s \in Ids :
    /\ calls.reconnect < MaxCalls
    /\ db[s].exists
    /\ calls' = [calls EXCEPT !.reconnect = @ + 1]
    /\ tasks' = reconnectSession(tasks, s, "caller")
    /\ UNCHANGED << db, fs, clients, keepaliveIntervals, cstate, csid, timers,
                    statusLog, done, logging, wire, messages, age, bot_executions,
                  rawNumber, normalized >>

\* ------------------------------------------------------------- timers
\* 169-181 (the 10 s callback awaits reconnectSession; its catch, which would set
\* the 2-minute timer of 175-179, runs only if reconnectSession rejects, and it
\* never does) and 551-553 (the 5-minute retry).
TimerFire ==
  \E tm \in BagToSet(timers) :
    /\ timers' = Kill(timers, tm)
    /\ tasks' = reconnectSession(tasks, tm.sid, tm.kind)
    /\ UNCHANGED << db, fs, clients, keepaliveIntervals, cstate, csid, statusLog,
                    done, calls, logging, wire, messages, age, bot_executions,
                  rawNumber, normalized >>

\* ------------------------------------------------------------- client events
\* The MessagingClient (whatsapp-web.js) emits lifecycle events; the emitter
\* calls the async listener, which runs to its first await and is not awaited.
Reasons == { "LOGOUT", "NAVIGATION" }

Handler(ev, c, by) == Task(ev, csid[c], "run", c, by, {})
Listeners == { "on_qr", "on_authenticated", "on_ready", "on_disconnected" }
Pending == BagCardinality(tasks) - BagCardinality([t \in { x \in Running : x.op \notin Listeners } |-> tasks[t]])
CanEmit == Pending < MaxPending

ClientQr ==
  \E c \in ClientIds :
    /\ CanEmit
    /\ cstate[c] = "init"
    /\ cstate' = [cstate EXCEPT ![c] = "qr"]
    /\ tasks' = Spawn(tasks, Handler("on_qr", c, "event"))
    /\ UNCHANGED << db, fs, clients, keepaliveIntervals, csid, timers, statusLog,
                    done, calls, logging, wire, messages, age, bot_executions,
                  rawNumber, normalized >>

\* Pairing succeeded, or the stored profile was accepted; the profile directory
\* is .wwebjs_auth/session-{id}/ (src/unnamed/part_006 line 167).
ClientAuthenticated ==
  \E c \in ClientIds :
    /\ CanEmit
    /\ \/ cstate[c] = "qr"
       \/ cstate[c] = "init" /\ LocalAuthDir(csid[c]) \in fs
    /\ cstate' = [cstate EXCEPT ![c] = "auth"]
    /\ fs' = fs \cup {LocalAuthDir(csid[c])}
    /\ tasks' = Spawn(tasks, Handler("on_authenticated", c, "event"))
    /\ UNCHANGED << db, clients, keepaliveIntervals, csid, timers, statusLog,
                    done, calls, logging, wire, messages, age, bot_executions,
                  rawNumber, normalized >>

ClientReady ==
  \E c \in ClientIds :
    /\ CanEmit
    /\ cstate[c] = "auth"
    /\ cstate' = [cstate EXCEPT ![c] = "ready"]
    /\ tasks' = Spawn(tasks, Handler("on_ready", c, "event"))
    /\ UNCHANGED << db, fs, clients, keepaliveIntervals, csid, timers, statusLog,
                    done, calls, logging, wire, messages, age, bot_executions,
                  rawNumber, normalized >>

\* 146-150: the listener's synchronous part is stopKeepalive(sessionId).
ClientDisconnected ==
  \E c \in ClientIds, reason \in Reasons :
    /\ CanEmit
    /\ cstate[c] = "ready"
    /\ cstate' = [cstate EXCEPT ![c] = IF reason = "LOGOUT" THEN "logout" ELSE "lost"]
    /\ keepaliveIntervals' = stopKeepalive(keepaliveIntervals, csid[c])
    /\ tasks' = Spawn(tasks, Handler("on_disconnected", c, reason))
    /\ UNCHANGED << db, fs, clients, csid, timers, statusLog, done, calls, logging, wire, messages, age, bot_executions,
                  rawNumber, normalized >>

\* ------------------------------------------------------------- listeners
\* 79-94
OnQr(t) ==
  /\ t.op = "on_qr"
  /\ LET upd == [status |-> "qr", qr_code |-> "dataurl"]
     IN /\ db' = DbUpdate(db, t.sid, upd)
        /\ statusLog' = LogWrite(statusLog, db, t.sid, upd)
  /\ tasks' = Kill(tasks, t)
  /\ UNCHANGED << fs, clients, keepaliveIntervals, cstate, csid, timers, done, calls, logging, wire, messages, age, bot_executions,
                  rawNumber, normalized >>

\* 121-131
OnAuthenticated(t) ==
  /\ t.op = "on_authenticated"
  /\ LET upd == [status |-> "connecting"]
     IN /\ db' = DbUpdate(db, t.sid, upd)
        /\ statusLog' = LogWrite(statusLog, db, t.sid, upd)
  /\ tasks' = Kill(tasks, t)
  /\ UNCHANGED << fs, clients, keepaliveIntervals, cstate, csid, timers, done, calls, logging, wire, messages, age, bot_executions,
                  rawNumber, normalized >>

\* 96-119: update, backupAuthData (writes no state of this model), startKeepalive
OnReady(t) ==
  /\ t.op = "on_ready"
  /\ LET upd == [status |-> "connected", phone_number |-> "phone", qr_code |-> "null"]
     IN /\ db' = DbUpdate(db, t.sid, upd)
        /\ statusLog' = LogWrite(statusLog, db, t.sid, upd)
  /\ keepaliveIntervals' = startKeepalive(keepaliveIntervals, t.sid, t.c)
  /\ tasks' = Kill(tasks, t)
  /\ UNCHANGED << fs, clients, cstate, csid, timers, done, calls, logging, wire, messages, age, bot_executions,
                  rawNumber, normalized >>

\* 165: the branch that decides on the reconnect timer
ShouldReconnectMutant(reason) == TRUE
ShouldReconnect(reason) == reason # "LOGOUT"

\* 152-185: update, this.clients.delete, then the 10 s reconnect timer
OnDisconnected(t) ==
  /\ t.op = "on_disconnected"
  /\ LET upd == [status |-> "disconnected", qr_code |-> "null"]
     IN /\ db' = DbUpdate(db, t.sid, upd)
        /\ statusLog' = LogWrite(statusLog, db, t.sid, upd)
  /\ clients' = [clients EXCEPT ![t.sid] = NoClient]
  /\ timers' = IF ShouldReconnect(t.by)
                 THEN Spawn(timers, Timer("short", t.sid))
                 ELSE timers
  /\ tasks' = Kill(tasks, t)
  /\ UNCHANGED << fs, keepaliveIntervals, cstate, csid, done, calls, logging, wire, messages, age, bot_executions,
                  rawNumber, normalized >>

PairingListenerStep ==
  \E t \in Running :
    \/ OnQr(t)
    \/ OnAuthenticated(t)
    \/ OnReady(t)

ListenerStep ==
  \/ PairingListenerStep
  \/ \E t \in Running : OnDisconnected(t)

PairingEvent ==
  \/ ClientQr
  \/ ClientAuthenticated
  \/ ClientReady

ClientEvent ==
  \/ PairingEvent
  \/ ClientDisconnected

\* ------------------------------------------------------------- getState
\* client.getState() of whatsapp-web.js: the connection state of a loaded page,
\* an exception once the page is gone.  A client whose 'disconnected' event has
\* not been emitted yet may already report a conflict.
GetState(c) ==
  CASE cstate[c] = "ready" -> { "CONNECTED", "CONFLICT" }
    [] cstate[c] \in { "init", "qr", "auth" } -> { "OPENING", "PAIRING" }
    [] OTHER -> { "THROW" }

\* ------------------------------------------------------------- keepalive tick
\* whatsappService.js 652-660: every 20 s the interval of a session calls its
\* callback; one that finds another client (or none) in the map clears the
\* interval, else client.getState() is awaited.  A period has gone by since the
\* last one.  One callback per session is in flight at a time.
Older(a, s) == [a EXCEPT ![s] = IF @ < MaxAge THEN @ + 1 ELSE @]

KeepaliveTick ==
  \E s \in Ids :
    /\ keepaliveIntervals[s] # NoClient
    /\ calls.tick < MaxCalls
    /\ \A t \in Running : ~(t.op = "keepalive" /\ t.sid = s)
    /\ calls' = [calls EXCEPT !.tick = @ + 1]
    /\ age' = Older(age, s)
    /\ IF clients[s] # keepaliveIntervals[s]
         THEN /\ keepaliveIntervals' = stopKeepalive(keepaliveIntervals, s)
              /\ tasks' = tasks
         ELSE /\ keepaliveIntervals' = keepaliveIntervals
              /\ tasks' = Spawn(tasks, Task("keepalive", s, "getState", clients[s], "-", {}))
    /\ UNCHANGED << db, fs, clients, cstate, csid, timers, statusLog, done, logging,
                    wire, messages, bot_executions,
                  rawNumber, normalized >>

\* A period goes by for a session that has a row and no interval.
PeriodWithoutTick ==
  \E s \in Ids :
    /\ db[s].exists
    /\ keepaliveIntervals[s] = NoClient
    /\ age[s] < MaxAge
    /\ age' = Older(age, s)
    /\ UNCHANGED << db, fs, clients, keepaliveIntervals, cstate, csid, tasks, timers,
                    statusLog, done, calls, logging, wire, messages, bot_executions,
                  rawNumber, normalized >>

\* 663-728: getState returns or throws, and the update of the branch is awaited
KaGetState(t) ==
  /\ t.op = "keepalive" /\ t.pc = "getState"
  /\ \E state \in GetState(t.c) :
       LET pc == IF state = "THROW" THEN "catch"
                 ELSE IF state = "CONNECTED" THEN "connected"
                 ELSE IF state \in { "CONNECTING", "PAIRING" } THEN "transition"
                 ELSE "notConnected"
       IN tasks' = Move(tasks, t, [At(t, pc) EXCEPT !.by = state])
  /\ UNCHANGED << db, fs, clients, keepaliveIntervals, cstate, csid, timers,
                  statusLog, done, calls, logging, wire, messages, age, bot_executions,
                  rawNumber, normalized >>

\* 687-700: the update of updated_at, last_seen and status 'connected' returns,
\* with or without an error, which is not looked at
KaConnected(t) ==
  /\ t.op = "keepalive" /\ t.pc = "connected"
  /\ \E dbok \in BOOLEAN :
       LET upd == [status |-> "connected"]
       IN /\ db' = IF dbok THEN DbUpdate(db, t.sid, upd) ELSE db
          /\ statusLog' = IF dbok THEN LogWrite(statusLog, db, t.sid, upd) ELSE statusLog
          /\ age' = IF dbok /\ db[t.sid].exists THEN [age EXCEPT ![t.sid] = 0] ELSE age
  /\ tasks' = Kill(tasks, t)
  /\ UNCHANGED << fs, clients, keepaliveIntervals, cstate, csid, timers, done,
                  calls, logging, wire, messages, bot_executions,
                  rawNumber, normalized >>

\* 701-709: the update of updated_at alone returns
KaTransition(t) ==
  /\ t.op = "keepalive" /\ t.pc = "transition"
  /\ tasks' = Kill(tasks, t)
  /\ UNCHANGED << db, fs, clients, keepaliveIntervals, cstate, csid, timers,
                  statusLog, done, calls, logging, wire, messages, age, bot_executions,
                  rawNumber, normalized >>

\* 710-728: the update of status 'disconnected' returns, then reconnectSession
\* is called and not awaited; the interval stays
KaNotConnected(t) ==
  /\ t.op = "keepalive" /\ t.pc = "notConnected"
  /\ LET upd == [status |-> "disconnected"]
     IN /\ db' = DbUpdate(db, t.sid, upd)
        /\ statusLog' = LogWrite(statusLog, db, t.sid, upd)
  /\ tasks' = reconnectSession(Kill(tasks, t), t.sid, "keepalive")
  /\ UNCHANGED << fs, clients, keepaliveIntervals, cstate, csid, timers, done,
                  calls, logging, wire, messages, age, bot_executions,
                  rawNumber, normalized >>

\* 729-750: the catch block calls .catch(...) on the query builder that
\* .update(...).eq(...) returned.  The builder of @supabase/supabase-js is a
\* thenable: where it has no catch method the call is a TypeError, raised
\* before the request is sent, and the callback ends there as a rejected
\* promise; where it has one, the update is awaited and reconnectSession is
\* called as in 710-728.  The repository does not pin the library.
BuilderHasCatch == BOOLEAN
KaCatch(t) ==
  /\ t.op = "keepalive" /\ t.pc = "catch"
  /\ \E hasCatch \in BuilderHasCatch :
       IF hasCatch
         THEN LET upd == [status |-> "disconnected"]
              IN /\ db' = DbUpdate(db, t.sid, upd)
                 /\ statusLog' = LogWrite(statusLog, db, t.sid, upd)
                 /\ tasks' = reconnectSession(Kill(tasks, t), t.sid, "keepalive")
         ELSE /\ db' = db
              /\ statusLog' = statusLog
              /\ tasks' = Kill(tasks, t)
  /\ UNCHANGED << fs, clients, keepaliveIntervals, cstate, csid, timers, done,
                  calls, logging, wire, messages, age, bot_executions,
                  rawNumber, normalized >>

KeepaliveStep ==
  \E t \in Running :
    \/ KaGetState(t)
    \/ KaConnected(t)
    \/ KaTransition(t)
    \/ KaNotConnected(t)
    \/ KaCatch(t)

\* ------------------------------------------------------------- SessionHealthCheck
\* part_017 14-47: the cron job runs checkAllSessions, which selects the rows
\* with a phone_number and one of three statuses and checks them one by one.
\* A row of the result is <<id, status as selected>>.
HealthSelect ==
  { << s, db[s].status >> : s \in { x \in Ids :
       /\ db[x].exists
       /\ db[x].phone_number # "null"
       /\ db[x].status \in { "connected", "connecting", "disconnected" } } }

HealthStart ==
  /\ calls.sweep < MaxSweeps
  /\ \A t \in Running : t.op # "health"
  /\ calls' = [calls EXCEPT !.sweep = @ + 1]
  /\ tasks' = IF HealthSelect = {}
                THEN tasks
                ELSE Spawn(tasks, Task("health", "-", "loop", NoClient, "-", HealthSelect))
  /\ UNCHANGED << db, fs, clients, keepaliveIntervals, cstate, csid, timers,
                  statusLog, done, logging, wire, messages, age, bot_executions,
                  rawNumber, normalized >>

\* part_017 41-65: the next row; without a client object the session is
\* reconnected (every selected row has a phone_number), else getState is awaited.
HealthCheckSession(t) ==
  /\ t.op = "health" /\ t.pc = "loop"
  /\ IF t.todo = {}
       THEN tasks' = Kill(tasks, t)
       ELSE \E row \in t.todo :
              LET s == row[1]
                  rest == [t EXCEPT !.todo = t.todo \ {row}, !.sid = s, !.by = row[2]]
              IN IF clients[s] = NoClient
                   THEN tasks' = reconnectSession(Move(tasks, t, At(rest, "awaitReconnect")),
                                                  s, "health")
                   ELSE tasks' = Move(tasks, t, [At(rest, "getState") EXCEPT !.c = clients[s]])
  /\ UNCHANGED << db, fs, clients, keepaliveIntervals, cstate, csid, timers,
                  statusLog, done, calls, logging, wire, messages, age, bot_executions,
                  rawNumber, normalized >>

\* part_017 68-125: by the state the client reports; line 109 reports a session
\* that needs a new pairing
HealthGetState(t) ==
  /\ t.op = "health" /\ t.pc = "getState"
  /\ \E state \in GetState(t.c) :
       LET upd == IF state = "CONNECTED" /\ t.by # "connected"
                    THEN [status |-> "connected"]
                    ELSE IF state \in { "CONFLICT", "UNPAIRED" }
                           THEN [status |-> "disconnected", qr_code |-> "null"]
                           ELSE [exists |-> db[t.sid].exists]
       IN /\ db' = DbUpdate(db, t.sid, upd)
          /\ statusLog' = LogWrite(statusLog, db, t.sid, upd)
          /\ tasks' = IF state \in { "DISCONNECTED", "OPENING" }
                        THEN reconnectSession(Move(tasks, t, At(t, "awaitReconnect")),
                                              t.sid, "health")
                        ELSE Move(tasks, t, At(t, "loop"))
          /\ done' = IF state \in { "CONFLICT", "UNPAIRED" }
                       THEN done \cup {Result("health", t.sid, state, "needs QR scan")}
                       ELSE done
  /\ UNCHANGED << fs, clients, keepaliveIntervals, cstate, csid, timers,
                  calls, logging, wire, messages, age, bot_executions,
                  rawNumber, normalized >>

HealthStep ==
  \E t \in Running :
    \/ HealthCheckSession(t)
    \/ HealthGetState(t)

\* ------------------------------------------------------------- restoreAllSessions
\* whatsappService.js 557-576: every row with a phone_number, whatever its status
RestoreSelect ==
  { << s, db[s].status >> : s \in { x \in Ids :
       db[x].exists /\ db[x].phone_number # "null" } }

\* server.js 106-112: once, 3 s after the server starts listening
RestoreStart ==
  /\ calls.restore < 1
  /\ calls' = [calls EXCEPT !.restore = @ + 1]
  /\ tasks' = IF RestoreSelect = {}
                THEN tasks
                ELSE Spawn(tasks, Task("restore", "-", "loop", NoClient, "-", RestoreSelect))
  /\ UNCHANGED << db, fs, clients, keepaliveIntervals, cstate, csid, timers,
                  statusLog, done, logging, wire, messages, age, bot_executions,
                  rawNumber, normalized >>

\* 578-595: the next row; skipped unless <authDataPath>/<id>/Default exists
RestoreNext(t) ==
  /\ t.op = "restore" /\ t.pc = "loop"
  /\ IF t.todo = {}
       THEN tasks' = Kill(tasks, t)
       ELSE \E row \in t.todo :
              LET s == row[1]
                  rest == [t EXCEPT !.todo = t.todo \ {row}, !.sid = s]
              IN IF RestoreAuthPath(s) \in fs
                   THEN tasks' = Move(tasks, t, At(rest, "markConnecting"))
                   ELSE tasks' = Move(tasks, t, rest)
  /\ UNCHANGED << db, fs, clients, keepaliveIntervals, cstate, csid, timers,
                  statusLog, done, calls, logging, wire, messages, age, bot_executions,
                  rawNumber, normalized >>

\* 592-622: the 'connecting' update returns; new Client, this.clients.set without
\* a look at the map, setupEventHandlers, client.initialize() is awaited.
RestoreMarkConnecting(t) ==
  /\ t.op = "restore" /\ t.pc = "markConnecting"
  /\ Unused # {}
  /\ LET c == NewClient
         upd == [status |-> "connecting"]
     IN /\ db' = DbUpdate(db, t.sid, upd)
        /\ statusLog' = LogWrite(statusLog, db, t.sid, upd)
        /\ cstate' = [cstate EXCEPT ![c] = "init"]
        /\ csid' = [csid EXCEPT ![c] = t.sid]
        /\ clients' = [clients EXCEPT ![t.sid] = c]
        /\ tasks' = Move(tasks, t, [At(t, "initialize") EXCEPT !.c = c])
  /\ UNCHANGED << fs, keepaliveIntervals, timers, done, calls, logging, wire, messages, age, bot_executions,
                  rawNumber, normalized >>

\* 622-627: initialize resolves, the 2 s pause passes, the loop goes on
RestoreInitialized(t) ==
  /\ t.op = "restore" /\ t.pc = "initialize"
  /\ cstate[t.c] # "failed"
  /\ tasks' = Move(tasks, t, [At(t, "loop") EXCEPT !.c = NoClient])
  /\ UNCHANGED << db, fs, clients, keepaliveIntervals, cstate, csid, timers,
                  statusLog, done, calls, logging, wire, messages, age, bot_executions,
                  rawNumber, normalized >>

\* 622, 628: initialize throws
RestoreInitFail(t) ==
  /\ t.op = "restore" /\ t.pc = "initialize"
  /\ cstate[t.c] = "init"
  /\ cstate' = [cstate EXCEPT ![t.c] = "failed"]
  /\ tasks' = Move(tasks, t, At(t, "catch"))
  /\ UNCHANGED << db, fs, clients, keepaliveIntervals, csid, timers, statusLog,
                  done, calls, logging, wire, messages, age, bot_executions,
                  rawNumber, normalized >>

\* 628-636: the per-session catch: 'disconnected' update, then the next row
RestoreCatchMutant(t) ==
  /\ t.op = "restore" /\ t.pc = "catch"
  /\ tasks' = Kill(tasks, t)
  /\ UNCHANGED << db, fs, clients, keepaliveIntervals, cstate, csid, timers,
                  statusLog, done, calls, logging, wire, messages, age, bot_executions,
                  rawNumber, normalized >>
RestoreCatch(t) ==
  /\ t.op = "restore" /\ t.pc = "catch"
  /\ LET upd == [status |-> "disconnected"]
     IN /\ db' = DbUpdate(db, t.sid, upd)
        /\ statusLog' = LogWrite(statusLog, db, t.sid, upd)
  /\ tasks' = Move(tasks, t, [At(t, "loop") EXCEPT !.c = NoClient])
  /\ UNCHANGED << fs, clients, keepaliveIntervals, cstate, csid, timers, done,
                  calls, logging, wire, messages, age, bot_executions,
                  rawNumber, normalized >>

RestoreStep ==
  \E t \in Running :
    \/ RestoreNext(t)
    \/ RestoreMarkConnecting(t)
    \/ RestoreInitialized(t)
    \/ RestoreInitFail(t)
    \/ RestoreCatch(t)

\* ------------------------------------------------------------- createSession
\* whatsappService.js 21-76.  The database gives the new row its id; s is an id
\* that no row and no earlier call has.  A call runs to the awaited insert.
CallCreate ==
  \E s \in Ids, u \in Users :
    /\ calls.create < MaxCalls
    /\ ~db[s].exists
    /\ ClientsOf(s) = {}
    /\ \A t \in Running : ~(t.op = "create" /\ t.sid = s)
    /\ calls' = [calls EXCEPT !.create = @ + 1]
    /\ tasks' = Spawn(tasks, Task("create", s, "insert", NoClient, u, {}))
    /\ UNCHANGED << db, fs, clients, keepaliveIntervals, cstate, csid, timers,
                    statusLog, done, logging, wire, messages, age, bot_executions,
                  rawNumber, normalized >>

\* 24-69: the insert returns the row (status 'connecting'); new Client,
\* this.clients.set, setupEventHandlers, client.initialize() is awaited.
CrInserted(t) ==
  /\ t.op = "create" /\ t.pc = "insert"
  /\ Unused # {}
  /\ LET c == NewClient
     IN /\ db' = [db EXCEPT ![t.sid] = Row("connecting", "null", "null", t.by)]
        /\ statusLog' = IF logging
                          THEN [statusLog EXCEPT ![t.sid] = Append(@, "connecting")]
                          ELSE statusLog
        /\ cstate' = [cstate EXCEPT ![c] = "init"]
        /\ csid' = [csid EXCEPT ![c] = t.sid]
        /\ clients' = [clients EXCEPT ![t.sid] = c]
        /\ tasks' = Move(tasks, t, [At(t, "initialize") EXCEPT !.c = c])
  /\ UNCHANGED << fs, keepaliveIntervals, timers, done, calls, logging, wire, messages, age, bot_executions,
                  rawNumber, normalized >>

\* 69-71: initialize resolves, the row is returned
CrInitialized(t) ==
  /\ t.op = "create" /\ t.pc = "initialize"
  /\ cstate[t.c] # "failed"
  /\ tasks' = Kill(tasks, t)
  /\ done' = done \cup {Result("create", t.sid, t.by, "ok")}
  /\ UNCHANGED << db, fs, clients, keepaliveIntervals, cstate, csid, timers,
                  statusLog, calls, logging, wire, messages, age, bot_executions,
                  rawNumber, normalized >>

\* 69, 72-75: initialize throws; the catch block logs and rethrows
CrInitFail(t) ==
  /\ t.op = "create" /\ t.pc = "initialize"
  /\ cstate[t.c] = "init"
  /\ cstate' = [cstate EXCEPT ![t.c] = "failed"]
  /\ tasks' = Kill(tasks, t)
  /\ done' = done \cup {Result("create", t.sid, t.by, "error")}
  /\ UNCHANGED << db, fs, clients, keepaliveIntervals, csid, timers, statusLog,
                  calls, logging, wire, messages, age, bot_executions,
                  rawNumber, normalized >>

CreateStep ==
  \E t \in Running :
    \/ CrInserted(t)
    \/ CrInitialized(t)
    \/ CrInitFail(t)

\* ------------------------------------------------------------- deleteSession
\* whatsappService.js 446: the ownership test on the selected row (null: no row)
OwnerMismatchMutant(row, userId) == FALSE
OwnerMismatch(row, userId) == row.exists /\ row.user_id # userId

\* 451-475, up to the next await, for the call t with the other tasks b.  With a
\* client in the map: stopKeepalive, then client.destroy() is called and
\* awaited; a client being destroyed emits nothing more.  Without one: the
\* profile directory is removed and the delete of the row is awaited.
DelProceed(b, t) ==
  LET c == clients[t.sid]
  IN IF c # NoClient
       THEN /\ keepaliveIntervals' = stopKeepalive(keepaliveIntervals, t.sid)
            /\ cstate' = [cstate EXCEPT ![c] = IF @ = "destroyed" THEN @ ELSE "destroying"]
            /\ tasks' = Spawn(b, [At(t, "destroy") EXCEPT !.c = c])
            /\ fs' = fs
       ELSE /\ fs' = fs \ {DeleteAuthPath(t.sid)}
            /\ tasks' = Spawn(b, At(t, "deleteRow"))
            /\ UNCHANGED << keepaliveIntervals, cstate >>

\* 437-449: with a userId the call runs to the awaited select of the row's
\* user_id, without one it goes straight on.  The id is one a caller can know:
\* the id of a row.
CallDelete ==
  \E s \in Ids, u \in Users \cup {NoUser} :
    /\ calls.delete < MaxCalls
    /\ db[s].exists
    /\ calls' = [calls EXCEPT !.delete = @ + 1]
    /\ IF u # NoUser
         THEN /\ tasks' = Spawn(tasks, Task("delete", s, "ownerCheck", NoClient, u, {}))
              /\ UNCHANGED << fs, keepaliveIntervals, cstate >>
         ELSE DelProceed(tasks, Task("delete", s, "start", NoClient, u, {}))
    /\ UNCHANGED << db, clients, csid, timers, statusLog, done, logging, wire, messages, age, bot_executions,
                  rawNumber, normalized >>

\* 440-449: the select returns; another owner's row makes the call throw
DelOwnerCheck(t) ==
  /\ t.op = "delete" /\ t.pc = "ownerCheck"
  /\ IF OwnerMismatch(db[t.sid], t.by)
       THEN /\ tasks' = Kill(tasks, t)
            /\ done' = done \cup {Result("delete", t.sid, t.by, "Unauthorized")}
            /\ UNCHANGED << fs, keepaliveIntervals, cstate >>
       ELSE /\ DelProceed(Kill(tasks, t), t)
            /\ done' = done
  /\ UNCHANGED << db, clients, csid, timers, statusLog, calls, logging, wire, messages, age, bot_executions,
                  rawNumber, normalized >>

\* 457-475: destroy resolves; this.clients.delete, the profile directory is
\* removed, the delete of the row is awaited
DelDestroyed(t) ==
  /\ t.op = "delete" /\ t.pc = "destroy"
  /\ cstate' = [cstate EXCEPT ![t.c] = "destroyed"]
  /\ clients' = [clients EXCEPT ![t.sid] = NoClient]
  /\ fs' = fs \ {DeleteAuthPath(t.sid)}
  /\ tasks' = Move(tasks, t, At(t, "deleteRow"))
  /\ UNCHANGED << db, keepaliveIntervals, csid, timers, statusLog, done, calls,
                  logging, wire, messages, age, bot_executions,
                  rawNumber, normalized >>

\* 472-478: the delete returns and so does the call
DelRowDeleted(t) ==
  /\ t.op = "delete" /\ t.pc = "deleteRow"
  /\ db' = [db EXCEPT ![t.sid] = NoRow]
  /\ tasks' = Kill(tasks, t)
  /\ done' = done \cup {Result("delete", t.sid, t.by, "ok")}
  /\ UNCHANGED << fs, clients, keepaliveIntervals, cstate, csid, timers, statusLog,
                  calls, logging, wire, messages, age, bot_executions,
                  rawNumber, normalized >>

DeleteStep ==
  \E t \in Running :
    \/ DelOwnerCheck(t)
    \/ DelDestroyed(t)
    \/ DelRowDeleted(t)

\* ------------------------------------------------------------- sendMessage
\* A recipient is the sequence of its characters.
Digit == { "0", "1", "2", "3", "4", "5", "6", "7", "8", "9" }
IsDigit(ch) == ch \in Digit
OnlyDigits(str) == SelectSeq(str, IsDigit)
Null == << >>
GroupSuffix == << "@", "g", ".", "u", "s" >>
ContactSuffix == << "@", "c", ".", "u", "s" >>

\* String.prototype.includes, String.prototype.trim, split('@')[0]
Includes(str, sub) ==
  \E i \in 1..(Len(str) - Len(sub) + 1) : SubSeq(str, i, i + Len(sub) - 1) = sub

RECURSIVE Trim(_)
Trim(str) ==
  IF str = << >> THEN str
  ELSE IF Head(str) = " " THEN Trim(Tail(str))
  ELSE IF str[Len(str)] = " " THEN Trim(SubSeq(str, 1, Len(str) - 1))
  ELSE str

BeforeAt(str) ==
  LET ats == { i \in DOMAIN str : str[i] = "@" }
  IN IF ats = {} THEN str
     ELSE SubSeq(str, 1, (CHOOSE i \in ats : \A j \in ats : i <= j) - 1)

\* whatsappService.js 230-274.  On a string of digits /^(\d{k})(0)(\d{8-k,})/
\* matches when the digit after the first k is 0 and the string has at least 9
\* digits; match[3] is all that follows the 0.
normalizePhoneNumberMutant(phoneNumber) ==
  LET digits == OnlyDigits(phoneNumber)
      n == Len(digits)
      Matches(k) == n >= 9 /\ digits[k + 1] = "0"
      Normalized(k) == SubSeq(digits, 1, k) \o SubSeq(digits, k + 2, n)
      Accepted(k) == Matches(k) /\ Len(Normalized(k)) >= 7 /\ Len(Normalized(k)) <= 15
  IN IF n < 9 THEN Null
     ELSE IF Accepted(3) THEN Normalized(3)
     ELSE IF Accepted(2) THEN Normalized(2)
     ELSE IF Accepted(1) THEN Normalized(1)
     ELSE digits
normalizePhoneNumber(phoneNumber) ==
  LET digits == OnlyDigits(phoneNumber)
      n == Len(digits)
      Matches(k) == n >= 9 /\ digits[k + 1] = "0"
      Normalized(k) == SubSeq(digits, 1, k) \o SubSeq(digits, k + 2, n)
      Accepted(k) == Matches(k) /\ Len(Normalized(k)) >= 7 /\ Len(Normalized(k)) <= 15
  IN IF n < 8 THEN Null
     ELSE IF Accepted(3) THEN Normalized(3)
     ELSE IF Accepted(2) THEN Normalized(2)
     ELSE IF Accepted(1) THEN Normalized(1)
     ELSE digits

\* 276-310: the address given to the client, or the error thrown
FormatRecipientMutant(to) == [err |-> "none", addr |-> Trim(to)]
FormatRecipient(to) ==
  LET formattedNumber == Trim(to)
      addr == IF Includes(formattedNumber, GroupSuffix)
                THEN OnlyDigits(BeforeAt(formattedNumber)) \o GroupSuffix
              ELSE IF Includes(formattedNumber, ContactSuffix)
                THEN OnlyDigits(BeforeAt(formattedNumber)) \o ContactSuffix
              ELSE IF normalizePhoneNumber(formattedNumber) = Null
                THEN Null
              ELSE normalizePhoneNumber(formattedNumber) \o ContactSuffix
  IN IF addr = Null THEN [err |-> "InvalidNumber", addr |-> Null]
     ELSE IF Len(addr) < 13 THEN [err |-> "InvalidFormat", addr |-> addr]
     ELSE [err |-> "none", addr |-> addr]

\* the recipients callers pass
Recipients ==
  { << "+", "2", "1", "2", " ", "0", "6", "5", "5", "-", "9", "2", "7", "9", "9", "9" >>,
    << "+", "1", " ", "(", "5", "5", "5", ")", " ", "1", "2", "3", "-", "4", "5", "6", "7" >>,
    << "1", "2", "3", "4", "5", "6", "7" >>,
    << "1", "2", "3", "4", "5", "@", "c", ".", "u", "s" >>,
    << "1", "5", "5", "5", "1", "2", "3", "4", "5", "6", "7", "@", "c", ".", "u", "s" >>,
    << "2", "1", "2", "0", "6", "5", "5", "9", "2", "7", "9", "9", "9", "@", "c", ".", "u", "s" >>,
    << "1", "2", "0", "3", "6", "3", "0", "-", "4", "5", "6", "7", "@", "g", ".", "u", "s" >> }

\* 213: the test on the state the client reports
SendAllowedMutant(state) == state # "CONFLICT"
SendAllowed(state) == state = "CONNECTED"

\* a send call's argument, what it learnt about the client, and its error
SendArg(to, saw, err) == { [to |-> to, saw |-> saw, err |-> err] }
Arg(t) == CHOOSE a \in t.todo : TRUE
Message(s, to, status) == [session_id |-> s, to |-> to, status |-> status]
InsertMutant(table, row, dbok) ==
  IF dbok THEN Append(table, row) ELSE Append(table, [row EXCEPT !.status = "failed"])
Insert(table, row, dbok) == IF dbok THEN Append(table, row) ELSE table

\* 204-212: without a client in the map the call throws into its catch block,
\* which awaits the insert of the 'failed' message; else getState is awaited.
\* `by` names the caller that awaits the call's promise.
sendMessage(b, s, to, by) ==
  IF clients[s] = NoClient
    THEN Spawn(b, Task("send", s, "catch", NoClient, by,
                       SendArg(to, "noclient", "NotConnected")))
    ELSE Spawn(b, Task("send", s, "getState", clients[s], by, SendArg(to, "-", "-")))

\* POST /api/messages/send and its siblings call sendMessage
CallSend ==
  \E s \in Ids, to \in Recipients :
    /\ calls.send < MaxCalls
    /\ calls' = [calls EXCEPT !.send = @ + 1]
    /\ tasks' = sendMessage(tasks, s, to, "-")
    /\ UNCHANGED << db, fs, clients, keepaliveIntervals, cstate, csid, timers,
                    statusLog, done, logging, wire, messages, age, bot_executions,
                  rawNumber, normalized >>

\* 212-318: getState returns or throws; a state other than CONNECTED and a
\* recipient that cannot be formatted throw; else client.sendMessage is called
\* with the formatted address and awaited.
SendGetState(t) ==
  /\ t.op = "send" /\ t.pc = "getState"
  /\ \E state \in GetState(t.c) :
       LET to == Arg(t).to
           f == FormatRecipient(to)
           err == IF state = "THROW" THEN "StateError"
                  ELSE IF ~SendAllowed(state) THEN "NotConnected"
                  ELSE f.err
       IN IF err # "none"
            THEN /\ tasks' = Move(tasks, t, [At(t, "catch") EXCEPT !.todo = SendArg(to, state, err)])
                 /\ wire' = wire
            ELSE /\ tasks' = Move(tasks, t, [At(t, "wireSend") EXCEPT !.todo = SendArg(to, state, err)])
                 /\ wire' = Append(wire, [sid |-> t.sid, c |-> t.c, address |-> f.addr])
  /\ UNCHANGED << db, fs, clients, keepaliveIntervals, cstate, csid, timers,
                  statusLog, done, calls, logging, messages, age, bot_executions,
                  rawNumber, normalized >>

\* 318-361: client.sendMessage resolves, the insert of the 'sent' message is
\* awaited; or it throws, into the inner and then the outer catch block
SendWired(t) ==
  /\ t.op = "send" /\ t.pc = "wireSend"
  /\ \E ok \in BOOLEAN :
       tasks' = IF ok THEN Move(tasks, t, At(t, "logSent"))
                ELSE Move(tasks, t, [At(t, "catch") EXCEPT
                                       !.todo = SendArg(Arg(t).to, Arg(t).saw, "SendFailed")])
  /\ UNCHANGED << db, fs, clients, keepaliveIntervals, cstate, csid, timers,
                  statusLog, done, calls, logging, wire, messages, age, bot_executions,
                  rawNumber, normalized >>

\* botService.js 182-191: a call made by executeBotTask settles into the
\* loop that awaits it: the result is pushed as 'sent', the error as 'failed',
\* and the loop goes on to its next number.
SendReturn(b, t, status) ==
  LET b1 == Kill(b, t)
      waiting == { h \in BagToSet(b1) :
                     h.op = "bot" /\ h.pc = "awaitSend" /\ h.sid = t.sid }
  IN IF t.by = "bot" /\ waiting # {}
       THEN LET h == CHOOSE x \in waiting : TRUE
                a == CHOOSE x \in h.todo : TRUE
                r == [number |-> Head(a.numbers), status |-> status]
            IN Move(b1, h, [h EXCEPT !.pc = "loop",
                                     !.todo = { [a EXCEPT !.numbers = Tail(@),
                                                          !.results = Append(@, r)] }])
       ELSE b1

\* 357-373: the insert returns, with the row or with an error that is only
\* logged; the call returns
SendLogged(t) ==
  /\ t.op = "send" /\ t.pc = "logSent"
  /\ \E dbok \in BOOLEAN :
       messages' = Insert(messages, Message(t.sid, Arg(t).to, "sent"), dbok)
  /\ tasks' = SendReturn(tasks, t, "sent")
  /\ done' = done \cup {Result("send", t.sid, Arg(t).saw, "ok")}
  /\ UNCHANGED << db, fs, clients, keepaliveIntervals, cstate, csid, timers,
                  statusLog, calls, logging, wire, age, bot_executions,
                  rawNumber, normalized >>

\* 374-390: the insert of the 'failed' message returns, the error is rethrown
SendCatch(t) ==
  /\ t.op = "send" /\ t.pc = "catch"
  /\ \E dbok \in BOOLEAN :
       messages' = Insert(messages, Message(t.sid, Arg(t).to, "failed"), dbok)
  /\ tasks' = SendReturn(tasks, t, "failed")
  /\ done' = done \cup {Result("send", t.sid, Arg(t).saw, Arg(t).err)}
  /\ UNCHANGED << db, fs, clients, keepaliveIntervals, cstate, csid, timers,
                  statusLog, calls, logging, wire, age, bot_executions,
                  rawNumber, normalized >>

SendStep ==
  \E t \in Running :
    \/ SendGetState(t)
    \/ SendWired(t)
    \/ SendLogged(t)
    \/ SendCatch(t)

\* ------------------------------------------------------------- executeBotTask
\* botService.js.  A bot is its session_id and its target_numbers, a list of
\* phone numbers and of "group:<id>" entries.
GroupPrefix == << "g", "r", "o", "u", "p", ":" >>
StartsWith(str, prefix) ==
  Len(str) >= Len(prefix) /\ SubSeq(str, 1, Len(prefix)) = prefix

Home == << "+", "2", "1", "2", " ", "0", "6", "5", "5", "-", "9", "2", "7", "9", "9", "9" >>
Office == << "1", "5", "5", "5", "1", "2", "3", "4", "5", "6", "7", "@", "c", ".", "u", "s" >>
Short == << "1", "2", "3", "4", "5", "6", "7" >>
Team == << "7" >>

\* contact_group_members joined with contacts: the phone numbers of a group
GroupNumbers(groupId) == IF groupId = Team THEN << Office, Home >> ELSE << >>

\* the target_numbers of the bots that run
BotTargets ==
  { << Home, Home >>,
    << Short, Office, Short >>,
    << Home, GroupPrefix \o Team >>,
    << GroupPrefix \o Team, Office >> }

IsGroupTarget(n) == StartsWith(n, GroupPrefix)
IsNumber(n) == ~IsGroupTarget(n)

\* 45: groupTarget.replace('group:', '')
GroupId(groupTarget) == SubSeq(groupTarget, Len(GroupPrefix) + 1, Len(groupTarget))

\* 60: [...new Set(numbers)] keeps the first occurrence of each value
DedupeMutant(numbers) == numbers
RECURSIVE Dedupe(_)
Dedupe(numbers) ==
  IF numbers = << >> THEN << >>
  ELSE LET front == Dedupe(SubSeq(numbers, 1, Len(numbers) - 1))
           last == numbers[Len(numbers)]
       IN IF \E i \in 1..Len(front) : front[i] = last THEN front
          ELSE Append(front, last)

\* 44-57: the numbers of each group target whose select returned data
RECURSIVE GroupsNumbers(_, _)
GroupsNumbers(groupTargets, fetched) ==
  IF groupTargets = << >> THEN << >>
  ELSE LET groupId == GroupId(Head(groupTargets))
       IN (IF groupId \in fetched THEN GroupNumbers(groupId) ELSE << >>)
            \o GroupsNumbers(Tail(groupTargets), fetched)

\* 32-60: the numbers a bot sends to; `fetched` are the groups whose select
\* did not fail
getBotTargetNumbers(target_numbers, fetched) ==
  LET numbers == SelectSeq(target_numbers, IsNumber)
      groupTargets == SelectSeq(target_numbers, IsGroupTarget)
  IN Dedupe(numbers \o GroupsNumbers(groupTargets, fetched))

Bot(s, target_numbers) == [session_id |-> s, target_numbers |-> target_numbers]
BotArg(bot, numbers, results) ==
  { [bot |-> bot, numbers |-> numbers, results |-> results] }
BotRunning(s) == { t \in Running : t.op = "bot" /\ t.sid = s }

\* 163-166: the scheduled callback calls executeBotTask, which awaits getSession
\* (139-147); the executions of one session's bots are followed one at a time.
CallBot ==
  \E s \in Ids, target_numbers \in BotTargets :
    /\ calls.bot < MaxRuns
    /\ BotRunning(s) = {}
    /\ calls' = [calls EXCEPT !.bot = @ + 1]
    /\ tasks' = Spawn(tasks, Task("bot", s, "getSession", NoClient, "-",
                                  BotArg(Bot(s, target_numbers), << >>, << >>)))
    /\ UNCHANGED << db, fs, clients, keepaliveIntervals, cstate, csid, timers,
                    statusLog, done, logging, wire, messages, age, bot_executions,
                  rawNumber, normalized >>

\* 166-176: getSession throws without a row, into the catch block at 206; a
\* status other than 'connected' returns; else getBotTargetNumbers is awaited
BotGetSession(t) ==
  /\ t.op = "bot" /\ t.pc = "getSession"
  /\ tasks' = IF db[t.sid].exists /\ db[t.sid].status = "connected"
                THEN Move(tasks, t, At(t, "getNumbers"))
                ELSE Kill(tasks, t)
  /\ UNCHANGED << db, fs, clients, keepaliveIntervals, cstate, csid, timers,
                  statusLog, done, calls, logging, wire, messages, age, bot_executions,
                  rawNumber, normalized >>

\* 176-179: getBotTargetNumbers returns, the loop over its numbers starts
BotGetNumbers(t) ==
  /\ t.op = "bot" /\ t.pc = "getNumbers"
  /\ \E fetched \in SUBSET {Team} :
       LET bot == Arg(t).bot
           targetNumbers == getBotTargetNumbers(bot.target_numbers, fetched)
       IN tasks' = Move(tasks, t, [At(t, "loop") EXCEPT
                                     !.todo = BotArg(bot, targetNumbers, << >>)])
  /\ UNCHANGED << db, fs, clients, keepaliveIntervals, cstate, csid, timers,
                  statusLog, done, calls, logging, wire, messages, age, bot_executions,
                  rawNumber, normalized >>

\* 180-203: the loop calls sendMessage for its next number and awaits it; after
\* the last number the insert into bot_executions is awaited
BotLoop(t) ==
  /\ t.op = "bot" /\ t.pc = "loop"
  /\ IF Arg(t).numbers # << >>
       THEN /\ tasks' = sendMessage(Move(tasks, t, At(t, "awaitSend")), t.sid,
                                    Head(Arg(t).numbers), "bot")
            /\ calls' = [calls EXCEPT !.send = @ + 1]
       ELSE /\ tasks' = Move(tasks, t, At(t, "logExecution"))
            /\ calls' = calls
  /\ UNCHANGED << db, fs, clients, keepaliveIntervals, cstate, csid, timers,
                  statusLog, done, logging, wire, messages, age, bot_executions,
                  rawNumber, normalized >>

\* 195-205: the insert of the execution's row returns
BotLogged(t) ==
  /\ t.op = "bot" /\ t.pc = "logExecution"
  /\ bot_executions' = Append(bot_executions,
                              [bot |-> Arg(t).bot, results |-> Arg(t).results])
  /\ tasks' = Kill(tasks, t)
  /\ UNCHANGED << db, fs, clients, keepaliveIntervals, cstate, csid, timers,
                  statusLog, done, calls, logging, wire, messages, age,
                  rawNumber, normalized >>

BotStep ==
  \E t \in Running :
    \/ BotGetSession(t)
    \/ BotGetNumbers(t)
    \/ BotLoop(t)
    \/ BotLogged(t)

\* ------------------------------------------------------------- initial states
NoCalls ==
  [reconnect |-> 0, create |-> 0, delete |-> 0, send |-> 0, sweep |-> 0,
   restore |-> 0, tick |-> 0, bot |-> 0]

InitWith(d, f, lg) ==
  /\ logging = lg
  /\ db = d
  /\ fs = f
  /\ clients = [s \in Ids |-> NoClient]
  /\ keepaliveIntervals = [s \in Ids |-> NoClient]
  /\ cstate = [c \in ClientIds |-> "none"]
  /\ csid = [c \in ClientIds |-> "-"]
  /\ tasks = EmptyBag
  /\ timers = EmptyBag
  /\ statusLog = [s \in Ids |-> << >>]
  /\ done = {}
  /\ calls = NoCalls
  /\ wire = << >>
  /\ messages = << >>
  /\ age = [s \in Ids |-> 0]
  /\ bot_executions = << >>
  /\ rawNumber = << >>
  /\ normalized = << >>

\* A paired session whose row exists and which has no client object: the state
\* after a restart or after a disconnect.
InitReconnect ==
  \E st \in { "connected", "disconnected" } :
    InitWith([s \in Ids |-> IF s = "A" THEN Row(st, "null", "phone", "U1") ELSE NoRow],
             {LocalAuthDir("A")}, TRUE)

NextSingleFlight ==
  \/ CallReconnect
  \/ ReconnectStep
  \/ TimerFire

SpecSingleFlight == InitReconnect /\ [][NextSingleFlight]_vars

\* A connected session: its client is ready, registered and probed by a keepalive.
InitConnected ==
  /\ logging = FALSE
  /\ db = [s \in Ids |-> IF s = "A" THEN Row("connected", "null", "phone", "U1") ELSE NoRow]
  /\ fs = {LocalAuthDir("A")}
  /\ clients = [s \in Ids |-> IF s = "A" THEN 1 ELSE NoClient]
  /\ keepaliveIntervals = [s \in Ids |-> IF s = "A" THEN 1 ELSE NoClient]
  /\ cstate = [c \in ClientIds |-> IF c = 1 THEN "ready" ELSE "none"]
  /\ csid = [c \in ClientIds |-> IF c = 1 THEN "A" ELSE "-"]
  /\ tasks = EmptyBag
  /\ timers = EmptyBag
  /\ statusLog = [s \in Ids |-> << >>]
  /\ done = {}
  /\ calls = NoCalls
  /\ wire = << >>
  /\ messages = << >>
  /\ age = [s \in Ids |-> 0]
  /\ bot_executions = << >>
  /\ rawNumber = << >>
  /\ normalized = << >>

\* Recovery of a connected session by the listeners and the timers alone.
NextRecovery ==
  \/ ClientEvent
  \/ ListenerStep
  \/ TimerFire
  \/ ReconnectStep

SpecRecovery == InitConnected /\ [][NextRecovery]_vars

\* The same with the HealthMonitor's sweeps.
NextHealth ==
  \/ ClientEvent
  \/ ListenerStep
  \/ TimerFire
  \/ ReconnectStep
  \/ HealthStart
  \/ HealthStep

SpecHealth == InitConnected /\ [][NextHealth]_vars

\* A process start: rows of paired sessions, no client objects.  Session A has a
\* profile directory and session B has none; <authDataPath>/A/Default, the path
\* restoreAllSessions looks at, may or may not be there.
InitRestart ==
  \E st \in { "connected", "disconnected" },
     f \in { {LocalAuthDir("A")}, {LocalAuthDir("A"), RestoreAuthPath("A")} } :
    InitWith([s \in Ids |-> IF s = "A" THEN Row(st, "null", "phone", "U1")
                                       ELSE Row(st, "null", "phone", "U2")],
             f, FALSE)

NextRestart ==
  \/ RestoreStart
  \/ RestoreStep
  \/ HealthStart
  \/ HealthStep
  \/ ReconnectStep
  \/ TimerFire
  \/ PairingEvent
  \/ PairingListenerStep

SpecRestart == InitRestart /\ [][NextRestart]_vars

\* A fresh process: no rows, no profile directories, no client objects.
InitEmpty == InitWith([s \in Ids |-> NoRow], {}, TRUE)

\* Sessions are created and paired.
NextPairing ==
  \/ CallCreate
  \/ CreateStep
  \/ PairingEvent
  \/ PairingListenerStep

SpecPairing == InitEmpty /\ [][NextPairing]_vars

\* A session that createSession made and whose client has authenticated after
\* the pairing: the 'authenticated' listener has written 'connecting', the
\* profile directory exists, 'ready' has not been emitted yet.
InitAuthenticated ==
  /\ logging = FALSE
  /\ db = [s \in Ids |-> IF s = "A" THEN Row("connecting", "dataurl", "null", "U1") ELSE NoRow]
  /\ fs = {LocalAuthDir("A")}
  /\ clients = [s \in Ids |-> IF s = "A" THEN 1 ELSE NoClient]
  /\ keepaliveIntervals = [s \in Ids |-> NoClient]
  /\ cstate = [c \in ClientIds |-> IF c = 1 THEN "auth" ELSE "none"]
  /\ csid = [c \in ClientIds |-> IF c = 1 THEN "A" ELSE "-"]
  /\ tasks = EmptyBag
  /\ timers = EmptyBag
  /\ statusLog = [s \in Ids |-> << >>]
  /\ done = {}
  /\ calls = NoCalls
  /\ wire = << >>
  /\ messages = << >>
  /\ age = [s \in Ids |-> 0]
  /\ bot_executions = << >>
  /\ rawNumber = << >>
  /\ normalized = << >>

ReadyListenerStep == \E t \in Running : OnReady(t)

\* The session becomes ready and is deleted, by its owner or by anyone else.
NextDelete ==
  \/ ClientReady
  \/ ReadyListenerStep
  \/ CallDelete
  \/ DeleteStep

SpecDelete == InitAuthenticated /\ [][NextDelete]_vars

\* Messages are sent through a session whose client is on its way to ready or
\* ready, and through an id without a client object.
InitSend == InitAuthenticated \/ InitConnected

NextSend ==
  \/ ClientReady
  \/ ReadyListenerStep
  \/ CallSend
  \/ SendStep

SpecSend == InitSend /\ [][NextSend]_vars

\* Bots scheduled on a connected session; the client may report CONFLICT and
\* client.sendMessage may throw.
NextBot ==
  \/ CallBot
  \/ BotStep
  \/ SendStep

SpecBot == InitConnected /\ [][NextBot]_vars

\* normalizePhoneNumber applied to a number as typed, and again to its result.
Typed == { "0", "1", " " }
PhoneNumbers == {Home} \cup UNION { [1..n -> Typed] : n \in 8..MaxLen }

InitNormalize ==
  /\ rawNumber \in PhoneNumbers
  /\ normalized = << >>
  /\ logging = FALSE
  /\ db = [s \in Ids |-> NoRow]
  /\ fs = {}
  /\ clients = [s \in Ids |-> NoClient]
  /\ keepaliveIntervals = [s \in Ids |-> NoClient]
  /\ cstate = [c \in ClientIds |-> "none"]
  /\ csid = [c \in ClientIds |-> "-"]
  /\ tasks = EmptyBag
  /\ timers = EmptyBag
  /\ statusLog = [s \in Ids |-> << >>]
  /\ done = {}
  /\ calls = NoCalls
  /\ wire = << >>
  /\ messages = << >>
  /\ age = [s \in Ids |-> 0]
  /\ bot_executions = << >>

\* 230-274: one more application, to the argument or to the last result
Normalize ==
  /\ Len(normalized) < MaxApplications
  /\ LET arg == IF normalized = << >> THEN rawNumber ELSE normalized[Len(normalized)]
     IN /\ arg # Null
        /\ normalized' = Append(normalized, normalizePhoneNumber(arg))
  /\ UNCHANGED << db, fs, clients, keepaliveIntervals, cstate, csid, tasks, timers,
                  statusLog, done, calls, logging, wire, messages, age,
                  bot_executions, rawNumber >>

SpecNormalize == InitNormalize /\ [][Normalize]_vars

\* A session whose client has disconnected: the 'disconnected' listener has
\* written the row, removed the client and set the 10 s reconnect timer.  The
\* session's owner deletes it.
InitDisconnected ==
  /\ logging = FALSE
  /\ db = [s \in Ids |-> IF s = "A" THEN Row("disconnected", "null", "phone", "U1") ELSE NoRow]
  /\ fs = {LocalAuthDir("A")}
  /\ clients = [s \in Ids |-> NoClient]
  /\ keepaliveIntervals = [s \in Ids |-> NoClient]
  /\ cstate = [c \in ClientIds |-> IF c = 1 THEN "lost" ELSE "none"]
  /\ csid = [c \in ClientIds |-> IF c = 1 THEN "A" ELSE "-"]
  /\ tasks = EmptyBag
  /\ timers = SetToBag({Timer("short", "A")})
  /\ statusLog = [s \in Ids |-> << >>]
  /\ done = {}
  /\ calls = NoCalls
  /\ wire = << >>
  /\ messages = << >>
  /\ age = [s \in Ids |-> 0]
  /\ bot_executions = << >>
  /\ rawNumber = << >>
  /\ normalized = << >>

NextGone ==
  \/ CallDelete
  \/ DeleteStep
  \/ TimerFire
  \/ ReconnectStep

SpecGone == InitDisconnected /\ [][NextGone]_vars

\* A connected session and its keepalive interval; the client may disconnect
\* while a probe awaits its state.
DisconnectedListenerStep == \E t \in Running : OnDisconnected(t)

NextKeepalive ==
  \/ KeepaliveTick
  \/ KeepaliveStep
  \/ ClientDisconnected
  \/ DisconnectedListenerStep
  \/ ReconnectStep
  \/ TimerFire

SpecKeepalive == InitConnected /\ [][NextKeepalive]_vars

\* A connected session, its keepalive interval and the HealthMonitor's sweep;
\* a reconnectSession call made by either finds the client in the map.
ReconnectGuardStep == \E t \in Running : RcGetSession(t)

KeepaliveProbeStep ==
  \E t \in Running :
    \/ KaGetState(t)
    \/ KaConnected(t)
    \/ KaNotConnected(t)

NextStale ==
  \/ KeepaliveTick
  \/ KeepaliveProbeStep
  \/ ReconnectGuardStep
  \/ HealthStart
  \/ HealthStep

SpecStale == InitConnected /\ [][NextStale]_vars

\* A process start where restoreAllSessions finds the directory it looks for,
\* for both sessions.
InitRestore ==
  \E st \in { "connected", "disconnected" } :
    InitWith([s \in Ids |-> IF s = "A" THEN Row(st, "null", "phone", "U1")
                                       ELSE Row(st, "null", "phone", "U2")],
             { LocalAuthDir(s) : s \in Ids } \cup { RestoreAuthPath(s) : s \in Ids },
             FALSE)

NextRestore ==
  \/ RestoreStart
  \/ RestoreStep
  \/ PairingEvent
  \/ PairingListenerStep

SpecRestore == InitRestore /\ [][NextRestore]_vars

\* ------------------------------------------------------------- claims
Count(seq, v) == Cardinality({ i \in DOMAIN seq : seq[i] = v })
Quiet == tasks = EmptyBag /\ timers = EmptyBag

\* C1: however reconnectSession(id) calls interleave for a session with a row and
\* no client object, at most one client is ever constructed for id, 'connecting'
\* is written at most once, and once the calls are over there is exactly one.
C1_SingleFlightReconnect ==
  \A s \in Ids :
    db[s].exists =>
      /\ Cardinality(ClientsOf(s)) <= 1
      /\ Count(statusLog[s], "connecting") <= 1
      /\ (calls.reconnect >= 2 /\ tasks = EmptyBag => Cardinality(ClientsOf(s)) = 1)

\* C2: no session id ever has two live clients (constructed, not failed, not
\* disconnected, not destroyed), whatever restoreAllSessions, the health sweep
\* and reconnectSession do.
C2_AtMostOneLiveClient ==
  \A s \in Ids : Cardinality(LiveClientsOf(s)) <= 1

LoggedOut(s) == \E c \in ClientIds : csid[c] = s /\ cstate[c] = "logout"

\* C3: once a client of a session has emitted 'disconnected' with reason LOGOUT,
\* no step of an automatic path constructs a client for that session, and a row
\* that says 'disconnected' keeps saying so.
C3_LogoutIsTerminal ==
  [][\A s \in Ids :
       LoggedOut(s) =>
         /\ ClientsOf(s)' = ClientsOf(s)
         /\ (db[s].status = "disconnected" => db'[s].status = "disconnected")]_vars

\* C4: the step in which the 'disconnected' listener finishes adds one 10 s
\* reconnect timer for the session when the reason is not LOGOUT and none when
\* it is, and a timer that fires makes exactly one reconnectSession call.
C4_TimerIffNotLogout ==
  [][/\ \A t \in Running :
          t.op = "on_disconnected" /\ CopiesIn(t, tasks') < CopiesIn(t, tasks) =>
            timers' = IF t.by = "LOGOUT" THEN timers
                      ELSE timers (+) SetToBag({Timer("short", t.sid)})
     /\ \A tm \in BagToSet(timers) :
          CopiesIn(tm, timers') < CopiesIn(tm, timers) =>
            tasks' = tasks (+) SetToBag({Task("reconnect", tm.sid, "getSession",
                                              NoClient, tm.kind, {})})]_vars

\* C4 witness: one client was lost and reconnected after its timer, a later one
\* logged out, both listeners have finished and no timer is pending.
C4_Witness ==
  /\ \E c1, c2 \in ClientIds : cstate[c1] = "lost" /\ cstate[c2] = "logout"
  /\ \A t \in Running : t.op # "on_disconnected"
  /\ timers = EmptyBag

\* C5: after a lost connection the timers make a connection attempt, and after a
\* failed attempt one more: when nothing is pending any more, every client that
\* was lost or failed to initialize has a successor.
C5_TwoTierRecovery ==
  Quiet =>
    \A c \in ClientIds :
      cstate[c] \in { "lost", "failed" } =>
        \E c2 \in ClientIds : c2 > c /\ csid[c2] = csid[c] /\ cstate[c2] # "none"

RestoreDone == calls.restore = 1 /\ \A t \in Running : t.op # "restore"

\* C6: after a restart with a profile directory for A and none for B, the
\* restore pass has made a client for A, no client is ever made for B, B's row
\* never holds a pairing challenge and says 'disconnected' after the pass.
C6_RestartScenario ==
  /\ (RestoreDone => ClientsOf("A") # {})
  /\ ClientsOf("B") = {}
  /\ db["B"].qr_code = "null" /\ db["B"].status # "qr"
  /\ (RestoreDone => db["B"].status = "disconnected")

PairingOrder == << "connecting", "qr", "connecting", "connected" >>
IsPrefix(a, b) == Len(a) <= Len(b) /\ \A i \in DOMAIN a : a[i] = b[i]
Paired(s) ==
  /\ \E c \in ClientIds : csid[c] = s /\ cstate[c] = "ready"
  /\ \A t \in Running : t.sid # s

\* C7: for a session made by createSession whose client emits qr, authenticated
\* and ready, the statuses written to the row are connecting, qr, connecting,
\* connected in that order, the row has a challenge while it says qr, and when
\* the listeners have finished the row says connected, has a phone_number and
\* no challenge.
C7_PairingScenario ==
  \A s \in Ids :
    /\ IsPrefix(statusLog[s], PairingOrder)
    /\ (db[s].status = "qr" => db[s].qr_code # "null")
    /\ (Paired(s) => /\ statusLog[s] = PairingOrder
                     /\ db[s].status = "connected"
                     /\ db[s].phone_number # "null"
                     /\ db[s].qr_code = "null")

Deleted(s) == \E r \in done : r.op = "delete" /\ r.sid = s /\ r.res = "ok"

\* C8: deleteSession stops the keepalive, destroys the client, removes the
\* profile directory and deletes the row, in that order: while it awaits
\* destroy the id has no keepalive timer, while it awaits the row's delete the
\* id has no client object and no directory, once it has returned the id has
\* no client object, no timer, no directory and no row, and no keepalive timer
\* ever probes a destroyed client.
C8_DeleteOrder ==
  /\ \A t \in Running :
       t.op = "delete" =>
         /\ t.pc = "destroy" => keepaliveIntervals[t.sid] = NoClient
         /\ t.pc = "deleteRow" => /\ clients[t.sid] = NoClient
                                  /\ LocalAuthDir(t.sid) \notin fs
  /\ \A s \in Ids :
       /\ keepaliveIntervals[s] # NoClient => cstate[keepaliveIntervals[s]] # "destroyed"
       /\ Deleted(s) => /\ clients[s] = NoClient
                        /\ keepaliveIntervals[s] = NoClient
                        /\ LocalAuthDir(s) \notin fs
                        /\ ~db[s].exists

\* C9: the step in which deleteSession(id, userId) learns that the row belongs
\* to another user ends the call with Unauthorized and changes neither
\* this.clients, nor the keepalive timers, nor the directories, nor the rows.
C9_UnauthorizedDelete ==
  [][\A t \in Running :
       /\ t.op = "delete" /\ t.pc = "ownerCheck"
       /\ CopiesIn(t, tasks') < CopiesIn(t, tasks)
       /\ db[t.sid].exists /\ db[t.sid].user_id # t.by
       => /\ Result("delete", t.sid, t.by, "Unauthorized") \in done'
          /\ tasks' = tasks (-) SetToBag({t})
          /\ UNCHANGED << clients, keepaliveIntervals, fs, db, cstate >>]_vars

\* C9 witness: a call by another user was refused while the session has its
\* row, a ready client, a keepalive timer and its directory.
C9_Witness ==
  \E r \in done :
    /\ r.op = "delete" /\ r.res = "Unauthorized"
    /\ db[r.sid].exists /\ db[r.sid].user_id # r.by
    /\ clients[r.sid] # NoClient /\ cstate[clients[r.sid]] = "ready"
    /\ keepaliveIntervals[r.sid] = clients[r.sid]
    /\ LocalAuthDir(r.sid) \in fs

NotConnectedSeen == { "noclient", "CONFLICT", "OPENING", "PAIRING" }

\* C10: a sendMessage call that finds no client object for the id, or whose
\* client reports a state other than CONNECTED, ends with the not-connected
\* error, and client.sendMessage is called only by a call whose client
\* reported CONNECTED.
C10_SendRequiresConnected ==
  [][/\ \A r \in done' \ done :
          r.op = "send" /\ r.by \in NotConnectedSeen => r.res = "NotConnected"
     /\ \A t \in BagToSet(tasks') :
          t.op = "send" /\ t.pc \in { "wireSend", "logSent" } =>
            t.c # NoClient /\ Arg(t).saw = "CONNECTED"
     /\ wire' # wire =>
          /\ Len(wire') = Len(wire) + 1
          /\ \E t \in BagToSet(tasks') :
               /\ t.op = "send" /\ t.pc = "wireSend"
               /\ CopiesIn(t, tasks') > CopiesIn(t, tasks)
               /\ Arg(t).saw = "CONNECTED"]_vars

\* C10 witness: calls were refused without a client object and with a client
\* that was not connected, a call with a connected client reached the wire, and
\* the wire saw that one call only.
C10_Witness ==
  /\ \E r \in done : r.op = "send" /\ r.by = "noclient" /\ r.res = "NotConnected"
  /\ \E r \in done : r.op = "send" /\ r.by \in { "OPENING", "PAIRING", "CONFLICT" }
                     /\ r.res = "NotConnected"
  /\ \E r \in done : r.op = "send" /\ r.by = "CONNECTED" /\ r.res = "ok"
  /\ Len(wire) = 1
  /\ tasks = EmptyBag

FewDigits(to) == Len(OnlyDigits(to)) < 8
InvalidAddress == { "InvalidNumber", "InvalidFormat" }
Moved(t) == CopiesIn(t, tasks') < CopiesIn(t, tasks)
Started(t) == CopiesIn(t, tasks') > CopiesIn(t, tasks)

\* C11: when a sendMessage call whose recipient has fewer than 8 digits learns
\* that its client is CONNECTED, it calls client.sendMessage not at all and
\* goes to its catch block with an invalid-address error, and the catch block
\* hands that error to the caller.
C11_InvalidRecipient ==
  [][/\ \A t \in Running :
          t.op = "send" /\ t.pc = "getState" /\ Moved(t) /\ FewDigits(Arg(t).to) =>
            /\ wire' = wire
            /\ \A u \in BagToSet(tasks') :
                 Started(u) /\ Arg(u).saw = "CONNECTED" =>
                   u.pc = "catch" /\ Arg(u).err \in InvalidAddress
     /\ \A t \in Running :
          t.op = "send" /\ t.pc = "catch" /\ Moved(t) /\ Arg(t).err \in InvalidAddress =>
            /\ Result("send", t.sid, Arg(t).saw, Arg(t).err) \in done'
            /\ wire' = wire]_vars

\* C11 witness: on a connected session a bare recipient and a recipient with a
\* suffix, both short of 8 digits, were refused, and nothing reached the wire.
C11_Witness ==
  /\ \E r \in done : r.op = "send" /\ r.by = "CONNECTED" /\ r.res = "InvalidNumber"
  /\ \E r \in done : r.op = "send" /\ r.by = "CONNECTED" /\ r.res = "InvalidFormat"
  /\ wire = << >>
  /\ tasks = EmptyBag

\* the address C12 expects on the wire: the normalized digits and the suffix
\* (for a group, the digits alone and the group suffix)
Canonical(to) ==
  IF Includes(Trim(to), GroupSuffix)
    THEN OnlyDigits(BeforeAt(Trim(to))) \o GroupSuffix
    ELSE normalizePhoneNumber(BeforeAt(Trim(to))) \o ContactSuffix

\* C12: a sendMessage call that reaches the wire passes the normalized digits
\* of its recipient followed by the suffix to client.sendMessage, and the
\* 'sent' row it inserts holds the recipient exactly as the caller gave it.
C12_SendFields ==
  [][/\ \A t \in Running :
          t.op = "send" /\ t.pc = "getState" /\ Moved(t) /\ wire' # wire =>
            wire' = Append(wire, [sid |-> t.sid, c |-> t.c, address |-> Canonical(Arg(t).to)])
     /\ \A t \in Running :
          t.op = "send" /\ t.pc = "logSent" /\ Moved(t) /\ messages' # messages =>
            messages' = Append(messages, Message(t.sid, Arg(t).to, "sent"))]_vars

\* C13: the step in which the insert of the 'sent' row returns, with the row
\* or with an error, ends the call with success: the caller gets the result,
\* the call does not enter its catch block, and the only row the step can add
\* to the messages table is the 'sent' one.
C13_LogFailureIsNotSendFailure ==
  [][\A t \in Running :
       t.op = "send" /\ t.pc = "logSent" /\ Moved(t) =>
         /\ tasks' = tasks (-) SetToBag({t})
         /\ Result("send", t.sid, Arg(t).saw, "ok") \in done'
         /\ \/ messages' = messages
            \/ messages' = Append(messages, Message(t.sid, Arg(t).to, "sent"))]_vars

\* C13 witness: the one call made reached the wire and returned success, and
\* the messages table is empty: the 'sent' row could not be written and no
\* 'failed' row was.
C13_Witness ==
  /\ calls.send = 1 /\ tasks = EmptyBag
  /\ Len(wire) = 1
  /\ \E r \in done : r.op = "send" /\ r.res = "ok"
  /\ messages = << >>

Stale(s) == age[s] >= MaxAge

\* C14: when the sweep learns the state of the client of a session whose row
\* says 'connected' and whose last_seen has not been written for MaxAge
\* keepalive periods, it marks the row 'disconnected' or calls
\* reconnectSession for the session.
C14_StaleSessionIsRepaired ==
  [][\A t \in Running :
       /\ t.op = "health" /\ t.pc = "getState" /\ Moved(t)
       /\ db[t.sid].status = "connected" /\ Stale(t.sid)
       => \/ db'[t.sid].status = "disconnected"
          \/ \E u \in BagToSet(tasks') :
               Started(u) /\ u.op = "reconnect" /\ u.sid = t.sid]_vars

\* C15: once the restore pass of a process start is over, whenever nothing is
\* mid-execution (no listener, no keepalive probe, no sweep, no call), a row
\* that says 'connected' has a client object in this.clients.
C15_ConnectedHasHandle ==
  RestoreDone /\ tasks = EmptyBag =>
    \A s \in Ids : db[s].status = "connected" => clients[s] # NoClient

\* C16: a row holds a pairing challenge only while its status is 'qr'.
C16_ChallengeOnlyWhileQr ==
  \A s \in Ids : db[s].qr_code # "null" => db[s].status = "qr"

\* C17: a keepalive interval registered for an id probes the client that
\* this.clients holds for that id.
C17_KeepaliveBoundToHandle ==
  \A s \in Ids :
    keepaliveIntervals[s] # NoClient => clients[s] = keepaliveIntervals[s]

\* C18: when the client of a session has emitted its events up to 'ready' and
\* every listener has finished, the row shows what the last event wrote:
\* 'connected' and no challenge.
C18_EventOrder ==
  \A s \in Ids :
    Paired(s) => db[s].status = "connected" /\ db[s].qr_code = "null"

\* C19: in restoreAllSessions a client whose initialize throws sends the pass
\* to its catch block with the rest of the list intact, the catch block writes
\* 'disconnected' to that session's row and goes on with the rest of the list,
\* and the pass ends only by returning from the loop with an empty list.
C19_RestoreFailureIsPerSession ==
  [][\A t \in Running :
       t.op = "restore" /\ Moved(t) =>
         /\ t.pc = "initialize" /\ cstate'[t.c] = "failed" =>
              \E u \in BagToSet(tasks') :
                Started(u) /\ u.op = "restore" /\ u.pc = "catch"
                /\ u.sid = t.sid /\ u.todo = t.todo
         /\ t.pc = "catch" =>
              /\ db'[t.sid].status = "disconnected"
              /\ \E u \in BagToSet(tasks') :
                   Started(u) /\ u.op = "restore" /\ u.pc = "loop" /\ u.todo = t.todo
         /\ (\A u \in BagToSet(tasks') : u.op # "restore") =>
              t.pc = "loop" /\ t.todo = {}]_vars

\* C19 witness: the pass is over; the client it made for one session failed to
\* initialize and that row says 'disconnected', and the other session got its
\* client after that.
C19_Witness ==
  /\ RestoreDone
  /\ \E c1, c2 \in ClientIds :
       /\ c1 < c2
       /\ cstate[c1] = "failed" /\ db[csid[c1]].status = "disconnected"
       /\ cstate[c2] \in Live /\ csid[c2] # csid[c1]

ResultNumbers(results) == [i \in 1..Len(results) |-> results[i].number]
NoRepeat(seq) == \A i, j \in 1..Len(seq) : seq[i] = seq[j] => i = j
Members(seq) == { seq[i] : i \in 1..Len(seq) }
Direct(bot) == Members(SelectSeq(bot.target_numbers, IsNumber))
InGroups(bot) ==
  UNION { Members(GroupNumbers(GroupId(g))) :
            g \in Members(SelectSeq(bot.target_numbers, IsGroupTarget)) }

\* one result, 'sent' or 'failed', for each distinct number the bot resolves to
OneResultEach(bot, results) ==
  /\ NoRepeat(ResultNumbers(results))
  /\ Direct(bot) \subseteq Members(ResultNumbers(results))
  /\ Members(ResultNumbers(results)) \subseteq Direct(bot) \cup InGroups(bot)
  /\ \A i \in 1..Len(results) : results[i].status \in {"sent", "failed"}

RECURSIVE ResultsRecorded(_)
ResultsRecorded(rows) ==
  IF rows = << >> THEN 0 ELSE Len(Head(rows).results) + ResultsRecorded(Tail(rows))

RECURSIVE ResultsPending(_)
ResultsPending(ts) ==
  IF ts = {} THEN 0
  ELSE LET t == CHOOSE x \in ts : TRUE
       IN Len(Arg(t).results) + (IF t.pc = "awaitSend" THEN 1 ELSE 0)
            + ResultsPending(ts \ {t})

RunEnds(t) ==
  /\ t.op = "bot" /\ Moved(t)
  /\ \A u \in BagToSet(tasks') : ~(u.op = "bot" /\ u.sid = t.sid)

ZeroAfterCode(digits) ==
  /\ Len(digits) >= 9 /\ Len(digits) <= 16
  /\ \E k \in 1..3 : digits[k + 1] = "0"

CorrectedTwice ==
  ZeroAfterCode(OnlyDigits(rawNumber)) /\ ZeroAfterCode(normalized[1])

\* C21: for a number of at least 8 digits whose normalization does not take a
\* zero out twice, normalizing the normalized number returns it unchanged.
C21_NormalizeIdempotent ==
  Len(normalized) >= 2 /\ Len(OnlyDigits(rawNumber)) >= 8 /\ ~CorrectedTwice
    => normalized[2] = normalized[1]

\* C21 witness: "+212 0655-927999" gave "212655927999", and that gave itself.
C21_Witness ==
  /\ rawNumber = Home
  /\ normalized = << << "2", "1", "2", "6", "5", "5", "9", "2", "7", "9", "9", "9" >>,
                     << "2", "1", "2", "6", "5", "5", "9", "2", "7", "9", "9", "9" >> >>

\* C22: a reconnectSession call whose client.initialize() throws starts no
\* other call of reconnectSession and sets no timer in that step; its catch block
\* writes 'disconnected' to the row, adds exactly one retry timer for the id and
\* starts no call of reconnectSession.
C22_FailedReconnectRetriesLater ==
  [][\A t \in Running :
       t.op = "reconnect" /\ t.c # NoClient /\ Moved(t) =>
         /\ t.pc = "initialize" /\ cstate'[t.c] = "failed" =>
              /\ timers' = timers
              /\ \A u \in BagToSet(tasks') : Started(u) => u.op = "reconnect" /\ u.pc = "catch"
         /\ t.pc = "catch" =>
              /\ db[t.sid].exists => db'[t.sid].status = "disconnected"
              /\ timers' = Spawn(timers, Timer("retry", t.sid))
              /\ \A u \in BagToSet(tasks') : ~(Started(u) /\ u.op = "reconnect")]_vars

\* C22 witness: the call is over; its client failed to initialize, the row says
\* 'disconnected' and one retry timer is pending.
C22_Witness ==
  /\ tasks = EmptyBag
  /\ timers = SetToBag({Timer("retry", "A")})
  /\ db["A"].status = "disconnected"
  /\ \E c \in ClientIds : csid[c] = "A" /\ cstate[c] = "failed"
  /\ calls.reconnect = 1

\* C23: a step of a reconnectSession call for an id without a row constructs no
\* client and leaves this.clients, the rows and the timers as they are.
C23_MissingRowIsNoOp ==
  [][\A t \in Running :
       t.op = "reconnect" /\ Moved(t) /\ ~db[t.sid].exists =>
         cstate' = cstate /\ clients' = clients /\ db' = db /\ timers' = timers]_vars

\* what a row holds besides its timestamps
Fields(row) ==
  [exists |-> row.exists, status |-> row.status, qr_code |-> row.qr_code,
   phone_number |-> row.phone_number, user_id |-> row.user_id]

\* C24: the step of a keepalive callback that found the client CONNECTED
\* changes no field of a row other than its timestamps and leaves this.clients
\* and the timers as they are.
C24_KeepaliveWritesTimestampsOnly ==
  [][\A t \in Running :
       t.op = "keepalive" /\ Moved(t) /\ t.pc = "connected" =>
         /\ \A s \in Ids : Fields(db'[s]) = Fields(db[s])
         /\ clients' = clients /\ timers' = timers]_vars

\* C25: the step that ends a keepalive callback whose getState() threw or
\* returned a state other than CONNECTED, CONNECTING and PAIRING writes
\* 'disconnected' to the row, starts a call of reconnectSession for the id and
\* leaves the keepalive intervals as they are.
C25_ProbeFailureReconnects ==
  [][\A t \in Running :
       t.op = "keepalive" /\ Moved(t) /\ t.pc \in { "notConnected", "catch" } =>
         /\ db[t.sid].exists => db'[t.sid].status = "disconnected"
         /\ Started(Task("reconnect", t.sid, "getSession", NoClient, "keepalive", {}))
         /\ keepaliveIntervals' = keepaliveIntervals]_vars

NeedsQr(s) ==
  \E state \in { "CONFLICT", "UNPAIRED" } :
    Result("health", s, state, "needs QR scan") \in done

\* C26: the sweep's step for a client that reports CONFLICT or UNPAIRED leaves
\* the row 'disconnected' without a challenge, and from then on no client is
\* constructed for that session by the sweep, a keepalive callback or a timer.
C26_ConflictIsNotAutoReconnected ==
  [][\A s \in Ids :
       /\ ~NeedsQr(s) /\ NeedsQr(s)' /\ db[s].exists =>
            db'[s].status = "disconnected" /\ db'[s].qr_code = "null"
       /\ NeedsQr(s) => ClientsOf(s)' \subseteq ClientsOf(s)]_vars

\* C27: a sendMessage call whose recipient carries "@c.us" passes to
\* client.sendMessage the address it would pass for the part before the "@"
\* given bare; one whose recipient carries "@g.us" passes the digits before
\* the "@", as they are, and "@g.us".
C27_SuffixedRecipientIsNormalized ==
  [][\A t \in Running :
       t.op = "send" /\ t.pc = "getState" /\ Moved(t) /\ wire' # wire =>
         LET to == Trim(Arg(t).to)
             address == wire'[Len(wire')].address
         IN /\ Includes(to, GroupSuffix) =>
                 address = OnlyDigits(BeforeAt(to)) \o GroupSuffix
            /\ ~Includes(to, GroupSuffix) /\ Includes(to, ContactSuffix) =>
                 address = FormatRecipient(BeforeAt(to)).addr]_vars

\* C28: the directory restoreAllSessions looks for is there exactly when the
\* directory the client writes its credentials to is, when the one deleteSession
\* removes is, and when the one the auth backup service inspects is.
C28_OneAuthLocation ==
  \A s \in Ids :
    /\ LocalAuthDir(s) \in fs <=> RestoreAuthPath(s) \in fs
    /\ DeleteAuthPath(s) \in fs <=> RestoreAuthPath(s) \in fs
    /\ BackupAuthPath(s) \in fs <=> RestoreAuthPath(s) \in fs

\* client c was made for a session whose registered client is another one
StaleClient(c) == csid[c] \in Ids /\ clients[csid[c]] \notin { c, NoClient }

\* C29: neither the emission of 'disconnected' by a stale client nor a step of
\* its 'disconnected' or 'ready' listener changes the client registered for the
\* session, or the keepalive interval when it is that client's.
C29_StaleClientIsIgnored ==
  [][/\ \A c \in ClientIds :
          StaleClient(c) /\ cstate[c] = "ready" /\ cstate'[c] \in { "lost", "logout" }
          /\ keepaliveIntervals[csid[c]] = clients[csid[c]] =>
            keepaliveIntervals'[csid[c]] = keepaliveIntervals[csid[c]]
     /\ \A t \in Running :
          t.op \in { "on_disconnected", "on_ready" } /\ Moved(t) /\ StaleClient(t.c) =>
            /\ clients'[t.sid] = clients[t.sid]
            /\ keepaliveIntervals[t.sid] = clients[t.sid] =>
                 keepaliveIntervals'[t.sid] = keepaliveIntervals[t.sid]]_vars

\* C30: a client whose initialize() threw is registered in this.clients only
\* while the createSession, reconnectSession or restoreAllSessions call that
\* made it is still handling the error.
C30_NoFailedHandle ==
  \A s \in Ids :
    LET c == clients[s]
    IN c # NoClient /\ cstate[c] = "failed" =>
         \E t \in Running : t.c = c /\ t.op \in { "create", "reconnect", "restore" }

====
